---- MODULE Spec2Model ----
(***************************************************************************)
(* Model of the Oblivius package updater (oblivius-updater.py): the source *)
(* adapters, the aggregation done by main(), the key-driven interaction    *)
(* loop of UpdaterTUI.run and the executor UpdaterTUI.run_updates.         *)
(*                                                                         *)
(* Text is modelled as a sequence of one-character strings, so that        *)
(* Python's strip() and split() are computed and not assumed.              *)
(***************************************************************************)
EXTENDS Integers, Sequences, FiniteSets, TLC

\* ------------------------------------------------------------------ bounds

\* Largest catalog the interaction loop is explored with.
MaxCatalog == 4
\* Largest terminal height (rows) the session is explored with.
MaxTermHeight == 12

\* ------------------------------------------------------- program constants

\* visible_height reserves 10 lines for header, footer and buttons.
ChromeLines == 10

SELECT_BUTTONS == <<"Select All", "Deselect All", "Update", "Exit">>
CONFIRM_BUTTONS == <<"Yes, Update", "Go Back">>
RESULTS_BUTTONS == <<"Exit">>

\* PackageSource
OFFICIAL == "official"
AUR == "aur"
FLATPAK == "flatpak"

\* --------------------------------------------------------------- text

SP == <<" ">>
TAB == <<"\t">>
NL == <<"\n">>
QUESTION == <<"?">>
INSTALLED == <<"i", "n", "s", "t", "a", "l", "l", "e", "d">>
UNKNOWN_ERROR == <<"U", "n", "k", "n", "o", "w", "n", " ", "e", "r", "r", "o", "r">>

Max(a, b) == IF a >= b THEN a ELSE b
Min(a, b) == IF a <= b THEN a ELSE b

\* The characters str.strip() and str.split() treat as whitespace.
IsSpace(c) == c \in {" ", "\t", "\n"}

RECURSIVE LStrip(_)
LStrip(s) == IF s # <<>> /\ IsSpace(Head(s)) THEN LStrip(Tail(s)) ELSE s

RECURSIVE RStrip(_)
RStrip(s) ==
    IF s # <<>> /\ IsSpace(s[Len(s)]) THEN RStrip(SubSeq(s, 1, Len(s) - 1)) ELSE s

\* str.strip()
Strip(s) == RStrip(LStrip(s))

\* str.split(sep) for a one-character separator: empty fields are kept, and
\* the empty string splits into one empty field.
RECURSIVE SplitOn(_, _)
SplitOn(s, sep) ==
    IF \E i \in 1..Len(s) : s[i] = sep
    THEN LET i == CHOOSE j \in 1..Len(s) :
                      s[j] = sep /\ \A k \in 1..(j - 1) : s[k] # sep
         IN <<SubSeq(s, 1, i - 1)>> \o SplitOn(SubSeq(s, i + 1, Len(s)), sep)
    ELSE <<s>>

\* str.split() with no separator: runs of whitespace separate the fields and
\* no empty field is produced.
RECURSIVE SplitWS(_)
SplitWS(s) ==
    LET t == LStrip(s)
    IN IF t = <<>> THEN <<>>
       ELSE IF \E i \in 1..Len(t) : IsSpace(t[i])
            THEN LET i == CHOOSE j \in 1..Len(t) :
                              IsSpace(t[j]) /\ \A k \in 1..(j - 1) : ~IsSpace(t[k])
                 IN <<SubSeq(t, 1, i - 1)>> \o SplitWS(SubSeq(t, i, Len(t)))
            ELSE <<t>>

\* --------------------------------------------------------- data model

\* Package(name, current_version, new_version, source): the dataclass default
\* of the fifth field is selected = True.
Package(name, current, new, source) ==
    [name |-> name, current_version |-> current, new_version |-> new,
     source |-> source, selected |-> TRUE]

\* UpdateResult(name, source, success, error = "")
UpdateResult(name, source, success, error) ==
    [name |-> name, source |-> source, success |-> success, error |-> error]

\* --------------------------------------------------- source adapters

\* What subprocess.run of a discovery command can do: return with exit status
\* 0 ("ok") or another status ("nonzero"), raise TimeoutExpired ("timeout"),
\* raise FileNotFoundError ("missing"), or raise another OSError such as
\* PermissionError ("oserror").
CmdStatus == {"ok", "nonzero", "timeout", "missing", "oserror"}

\* The except clause of the three adapters: (TimeoutExpired, FileNotFoundError).
Caught(status) == status \in {"timeout", "missing"}

\* An adapter either returns a list or lets the exception through.
Returned(pkgs) == [raised |-> FALSE, pkgs |-> pkgs]
Raised == [raised |-> TRUE, pkgs |-> <<>>]

\* The body of the loop of get_official_updates for one line.
OfficialLine(line) ==
    LET parts == SplitWS(line)
    IN IF Len(parts) >= 4
       THEN <<Package(parts[1], parts[2], parts[4], OFFICIAL)>>
       ELSE <<>>

\* The body of the loop of get_aur_updates for one line.
AurLine(line) ==
    LET parts == SplitWS(line)
    IN IF Len(parts) >= 4
       THEN <<Package(parts[1], parts[2], parts[4], AUR)>>
       ELSE IF Len(parts) >= 2
            THEN <<Package(parts[1],
                           IF Len(parts) > 1 THEN parts[2] ELSE QUESTION,
                           QUESTION, AUR)>>
            ELSE <<>>

\* The body of the loop of get_flatpak_updates for one line.
FlatpakLine(line) ==
    LET parts == SplitOn(line, "\t")
    IN IF parts # <<>>
       THEN LET name == Strip(parts[1])
                new_version == IF Len(parts) > 1 THEN Strip(parts[2]) ELSE QUESTION
            IN IF name # <<>>
               THEN <<Package(name, INSTALLED, new_version, FLATPAK)>>
               ELSE <<>>
       ELSE <<>>

\* The loop body of the adapter of the given source.
ParseLine(source, line) ==
    CASE source = OFFICIAL -> OfficialLine(line)
      [] source = AUR -> AurLine(line)
      [] source = FLATPAK -> FlatpakLine(line)

\* for line in lines: ... packages.append(...)
RECURSIVE ParseLines(_, _)
ParseLines(source, lines) ==
    IF lines = <<>> THEN <<>>
    ELSE ParseLine(source, Head(lines)) \o ParseLines(source, Tail(lines))

\* The guarded parse shared by the adapters:
\*   if result.returncode == 0 and result.stdout.strip():
\*       for line in result.stdout.strip().split("\n"): ...
ParseOutput(source, out) ==
    IF out.status = "ok" /\ Strip(out.stdout) # <<>>
    THEN ParseLines(source, SplitOn(Strip(out.stdout), "\n"))
    ELSE <<>>

get_official_updates(out) ==
    IF out.status \in {"ok", "nonzero"} THEN Returned(ParseOutput(OFFICIAL, out))
    ELSE IF Caught(out.status) THEN Returned(<<>>)
    ELSE Raised

get_aur_updates(out) ==
    IF out.status \in {"ok", "nonzero"} THEN Returned(ParseOutput(AUR, out))
    ELSE IF Caught(out.status) THEN Returned(<<>>)
    ELSE Raised

\* which is the result of shutil.which("flatpak"): with no flatpak binary the
\* adapter returns before it runs anything.
get_flatpak_updates(which, out) ==
    IF ~which THEN Returned(<<>>)
    ELSE IF out.status \in {"ok", "nonzero"} THEN Returned(ParseOutput(FLATPAK, out))
    ELSE IF Caught(out.status) THEN Returned(<<>>)
    ELSE Raised

\* ------------------------------------------- outputs of the discovery tools

Letters == <<"a", "b", "c", "d", "e", "f", "g", "h">>
NameOf(i) == <<Letters[i]>>
VerOld == <<"1">>
VerNew == <<"2">>
ARROW == <<"-", ">">>

\* Join lines, each ended by a newline, as the tools print them.
RECURSIVE JoinLines(_)
JoinLines(lines) ==
    IF lines = <<>> THEN <<>> ELSE Head(lines) \o NL \o JoinLines(Tail(lines))

\* "name old -> new", the line checkupdates and the helpers print.
FullLine(i) == NameOf(i) \o SP \o VerOld \o SP \o ARROW \o SP \o VerNew
\* "application<TAB>version", the line flatpak prints.
TabLine(i) == NameOf(i) \o TAB \o VerNew

\* A line of a kind other than the well-formed one.
OddLine(kind, i) ==
    CASE kind = "blank" -> <<>>
      [] kind = "one" -> NameOf(i)
      [] kind = "two" -> NameOf(i) \o SP \o VerOld
      [] kind = "three" -> NameOf(i) \o SP \o VerOld \o SP \o ARROW
      [] kind = "notab" -> NameOf(i)
      [] kind = "noversion" -> NameOf(i) \o TAB
      [] kind = "noname" -> SP \o TAB \o VerNew

\* The well-formed line a tool prints for its i-th update.
GoodLine(tool, i) == IF tool = "flatpak" THEN TabLine(i) ELSE FullLine(i)

\* n lines, the last of them of the given kind ("full" for none odd).
Lines(tool, n, kind) ==
    [i \in 1..n |->
        IF i = n /\ kind # "full" THEN OddLine(kind, i) ELSE GoodLine(tool, i)]

MaxLines == MaxCatalog \div 2

WhitespaceKinds == {"full", "blank", "one", "two", "three"}
TabKinds == {"full", "blank", "notab", "noversion", "noname"}

\* What a discovery command can produce: any status, with a standard output
\* of up to MaxLines lines whose last line may be malformed.
Outcomes(tool) ==
    { [status |-> st, stdout |-> JoinLines(Lines(tool, n, k))] :
        st \in CmdStatus, n \in 0..MaxLines,
        k \in IF tool = "flatpak" THEN TabKinds ELSE WhitespaceKinds }

CheckupdatesOutcomes == Outcomes("checkupdates")
HelperOutcomes == Outcomes("helper")
FlatpakOutcomes == Outcomes("flatpak")

\* ------------------------------------------------------------- state

VARIABLES
    pc,              \* where main() and the interaction loop stand
    term_height,     \* term.height, the rows of the terminal
    aur_helper,      \* "paru", "yay" or "none" (None)
    packages,        \* the catalog: main's list, then UpdaterTUI.packages
    fetched,         \* what each adapter returned (history, for the claims)
    cursor,          \* UpdaterTUI.cursor
    scroll_offset,   \* UpdaterTUI.scroll_offset
    mode,            \* UpdaterTUI.mode; "none" before the object exists
    in_button_area,  \* UpdaterTUI.in_button_area
    button_cursor,   \* UpdaterTUI.button_cursor
    results,         \* UpdaterTUI.results
    fullscreen,      \* whether the terminal is in the alternate screen
    broke_at,        \* the break that ended the loop: "none", "button" or "quit"
    pacman_pkgs,     \* run_updates' local pacman_pkgs
    flatpaks,        \* run_updates' local flatpaks
    idx,             \* the loop index of run_updates' for loops (from 1)
    cmds,            \* the update, sync and notify commands issued so far
    updating,        \* BrightnessWindow.updating
    pending_values,  \* BrightnessWindow.pending_values: bus -> <<value, max>>
    pending_timeouts, \* BrightnessWindow.pending_timeouts: key -> source id
    all_scale,       \* the value of the All slider
    sliders,         \* the value of each display's slider, by bus
    timeout_sources, \* the timeouts GLib holds: [id, key, callback]
    next_source_id,  \* the id GLib.timeout_add returns next
    ddc,             \* the last value sent to each bus by ddcutil setvcp, -1 for none
    last_input,      \* per debounce key, the value and timeout of its latest input
    inputs           \* the number of slider inputs so far

\* The state of the brightness applet and of its GLib main loop.
applet == <<updating, pending_values, pending_timeouts, all_scale, sliders,
            timeout_sources, next_source_id, ddc, last_input, inputs>>

vars == <<pc, term_height, aur_helper, packages, fetched, cursor, scroll_offset,
          mode, in_button_area, button_cursor, results, fullscreen, broke_at,
          pacman_pkgs, flatpaks, idx, cmds, applet>>

\* The fields of the UpdaterTUI object.
tui == <<packages, cursor, scroll_offset, mode, in_button_area, button_cursor, results>>
\* The locals of run_updates and the commands it has issued.
exec == <<pacman_pkgs, flatpaks, idx, cmds>>
\* What main() fixes before the interaction loop, and the terminal.
env == <<term_height, aur_helper, fetched>>

\* The terminal heights explored, from the smallest that leaves no row for the
\* list (page size 0) upwards; the height is read once per session.
TermHeights == ChromeLines..MaxTermHeight

\* ------------------------------------------- the brightness applet's state

\* self.displays: two displays with their bus and their maximum brightness.
Displays == { [bus |-> "5", max |-> 100], [bus |-> "6", max |-> 255] }
Buses == { d.bus : d \in Displays }
MaxValOf(bus) == (CHOOSE d \in Displays : d.bus = bus).max

\* The positions a slider is moved to (its range is 0..100 in steps of 1).
Percents == {0, 50, 100}

\* The debounce keys: each display's bus and 'all'.
DebounceKeys == Buses \cup {"all"}

\* A dict with no key.
EmptyDict == [k \in {} |-> 0]

\* No input was made for a key yet.
NoInput == [value |-> -1, id |-> 0]

\* The window once build_sliders has run: each slider shows the brightness
\* read from its display, the All slider the largest of them, and nothing is
\* pending.
AppletInit ==
    /\ updating = FALSE
    /\ pending_values = EmptyDict
    /\ pending_timeouts = EmptyDict
    /\ sliders \in [Buses -> Percents]
    /\ all_scale = CHOOSE m \in Percents :
                       /\ \E b \in Buses : sliders[b] = m
                       /\ \A b \in Buses : sliders[b] <= m
    /\ timeout_sources = {}
    /\ next_source_id = 1
    /\ ddc = [b \in Buses |-> -1]
    /\ last_input = [k \in DebounceKeys |-> NoInput]
    /\ inputs = 0

\* The applet is not running: the state of a window that was never built.
AppletIdle ==
    /\ updating = FALSE
    /\ pending_values = EmptyDict
    /\ pending_timeouts = EmptyDict
    /\ sliders = EmptyDict
    /\ all_scale = 0
    /\ timeout_sources = {}
    /\ next_source_id = 1
    /\ ddc = [b \in Buses |-> -1]
    /\ last_input = [k \in DebounceKeys |-> NoInput]
    /\ inputs = 0

Init ==
    /\ AppletIdle
    /\ pc = "detect"
    /\ term_height \in TermHeights
    /\ aur_helper = "none"
    /\ packages = <<>>
    /\ fetched = [official |-> <<>>, aur |-> <<>>, flatpak |-> <<>>]
    /\ cursor = 0
    /\ scroll_offset = 0
    /\ mode = "none"
    /\ in_button_area = FALSE
    /\ button_cursor = 0
    /\ results = <<>>
    /\ fullscreen = FALSE
    /\ broke_at = "none"
    /\ pacman_pkgs = <<>>
    /\ flatpaks = <<>>
    /\ idx = 0
    /\ cmds = <<>>

\* ------------------------------------------------------------- main()

\* detect_aur_helper: the first of paru, yay that shutil.which finds.
detect_aur_helper(has_paru, has_yay) ==
    IF has_paru THEN "paru" ELSE IF has_yay THEN "yay" ELSE "none"

DetectAurHelper ==
    /\ pc = "detect"
    /\ \E has_paru \in BOOLEAN, has_yay \in BOOLEAN :
           aur_helper' = detect_aur_helper(has_paru, has_yay)
    /\ pc' = "official"
    /\ UNCHANGED <<term_height, fetched, tui, fullscreen, broke_at, exec>>
    /\ UNCHANGED applet

\* extend that puts the new items in front.
Extend_Prepends(pkgs, more) == more \o pkgs

\* packages.extend(more)
Extend(pkgs, more) == pkgs \o more

\* packages.extend(get_official_updates()); an exception ends main().
FetchOfficial ==
    /\ pc = "official"
    /\ \E out \in CheckupdatesOutcomes :
         LET r == get_official_updates(out)
         IN IF r.raised
            THEN /\ pc' = "crashed"
                 /\ UNCHANGED <<packages, fetched>>
            ELSE /\ Len(packages) + Len(r.pkgs) <= MaxCatalog
                 /\ packages' = Extend(packages, r.pkgs)
                 /\ fetched' = [fetched EXCEPT !.official = r.pkgs]
                 /\ pc' = IF aur_helper # "none" THEN "aur" ELSE "flatpak"
    /\ UNCHANGED <<term_height, aur_helper, cursor, scroll_offset, mode,
                   in_button_area, button_cursor, results, fullscreen, broke_at, exec>>
    /\ UNCHANGED applet

\* if aur_helper: packages.extend(get_aur_updates(aur_helper))
FetchAur ==
    /\ pc = "aur"
    /\ \E out \in HelperOutcomes :
         LET r == get_aur_updates(out)
         IN IF r.raised
            THEN /\ pc' = "crashed"
                 /\ UNCHANGED <<packages, fetched>>
            ELSE /\ Len(packages) + Len(r.pkgs) <= MaxCatalog
                 /\ packages' = Extend(packages, r.pkgs)
                 /\ fetched' = [fetched EXCEPT !.aur = r.pkgs]
                 /\ pc' = "flatpak"
    /\ UNCHANGED <<term_height, aur_helper, cursor, scroll_offset, mode,
                   in_button_area, button_cursor, results, fullscreen, broke_at, exec>>
    /\ UNCHANGED applet

\* packages.extend(get_flatpak_updates())
FetchFlatpak ==
    /\ pc = "flatpak"
    /\ \E which \in BOOLEAN, out \in FlatpakOutcomes :
         LET r == get_flatpak_updates(which, out)
         IN IF r.raised
            THEN /\ pc' = "crashed"
                 /\ UNCHANGED <<packages, fetched>>
            ELSE /\ Len(packages) + Len(r.pkgs) <= MaxCatalog
                 /\ packages' = Extend(packages, r.pkgs)
                 /\ fetched' = [fetched EXCEPT !.flatpak = r.pkgs]
                 /\ pc' = "check"
    /\ UNCHANGED <<term_height, aur_helper, cursor, scroll_offset, mode,
                   in_button_area, button_cursor, results, fullscreen, broke_at, exec>>
    /\ UNCHANGED applet

\* if not packages: print the notice and wait in input().
NoUpdates ==
    /\ pc = "check"
    /\ packages = <<>>
    /\ pc' = "prompt"
    /\ UNCHANGED <<env, tui, fullscreen, broke_at, exec>>
    /\ UNCHANGED applet

\* The operator presses Enter; main() then signals waybar and returns.
Acknowledge ==
    /\ pc = "prompt"
    /\ cmds' = Append(cmds, [cmd |-> "notify", name |-> <<>>, rc |-> 0])
    /\ pc' = "exit"
    /\ UNCHANGED <<env, tui, fullscreen, broke_at, pacman_pkgs, flatpaks, idx>>
    /\ UNCHANGED applet

\* StartTUI without the return of main() on an empty catalog.
StartTUI_AnyCatalog ==
    /\ pc = "check"
    /\ cursor' = 0
    /\ scroll_offset' = 0
    /\ mode' = "select"
    /\ in_button_area' = FALSE
    /\ button_cursor' = 0
    /\ results' = <<>>
    /\ fullscreen' = TRUE
    /\ pc' = "inkey"
    /\ UNCHANGED <<env, packages, broke_at, exec>>
    /\ UNCHANGED applet

\* tui = UpdaterTUI(term, packages, aur_helper); tui.run() enters fullscreen
\* and the loop waits for its first key.
StartTUI ==
    /\ pc = "check"
    /\ packages # <<>>
    /\ cursor' = 0
    /\ scroll_offset' = 0
    /\ mode' = "select"
    /\ in_button_area' = FALSE
    /\ button_cursor' = 0
    /\ results' = <<>>
    /\ fullscreen' = TRUE
    /\ pc' = "inkey"
    /\ UNCHANGED <<env, packages, broke_at, exec>>
    /\ UNCHANGED applet

\* ------------------------------------------------------- UpdaterTUI

\* visible_height: term.height - 10
visible_height == term_height - ChromeLines

\* current_buttons
current_buttons ==
    IF mode = "select" THEN SELECT_BUTTONS
    ELSE IF mode = "confirm" THEN CONFIRM_BUTTONS
    ELSE IF mode = "results" THEN RESULTS_BUTTONS
    ELSE <<>>

\* ClampCursor without the upper clamp.
ClampCursor_NoUpper(c, delta, n) == Max(0, c + delta)

\* The clamp of move_cursor on the list: max(0, min(len - 1, cursor + delta)).
ClampCursor(c, delta, n) == Max(0, Min(n - 1, c + delta))

\* AdjustScroll with the window's lower edge one row off.
AdjustScroll_OffByOne(c, off, vh) ==
    IF c < off THEN c
    ELSE IF c >= off + vh THEN c - vh
    ELSE off

\* The scroll adjustment of move_cursor for the new cursor c.
AdjustScroll(c, off, vh) ==
    IF c < off THEN c
    ELSE IF c >= off + vh THEN c - vh + 1
    ELSE off

\* move_cursor that moves the button cursor without the clamp.
move_cursor_Unclamped(delta) ==
    IF in_button_area
    THEN /\ button_cursor' = button_cursor + delta
         /\ UNCHANGED <<cursor, scroll_offset>>
    ELSE /\ cursor' = ClampCursor(cursor, delta, Len(packages))
         /\ scroll_offset' = AdjustScroll(cursor', scroll_offset, visible_height)
         /\ UNCHANGED button_cursor

\* move_cursor(delta): sets button_cursor, or cursor and scroll_offset.
move_cursor(delta) ==
    IF in_button_area
    THEN /\ button_cursor' =
                Max(0, Min(Len(current_buttons) - 1, button_cursor + delta))
         /\ UNCHANGED <<cursor, scroll_offset>>
    ELSE /\ cursor' = ClampCursor(cursor, delta, Len(packages))
         /\ scroll_offset' = AdjustScroll(cursor', scroll_offset, visible_height)
         /\ UNCHANGED button_cursor

\* move_to_buttons that leaves button_cursor where it was.
move_to_buttons_KeepsButton ==
    /\ in_button_area' = TRUE
    /\ UNCHANGED button_cursor

\* move_to_buttons: sets in_button_area and button_cursor.
move_to_buttons ==
    /\ in_button_area' = TRUE
    /\ button_cursor' = 0

\* move_to_list: sets in_button_area.
move_to_list == in_button_area' = FALSE

\* toggle_current that sets the flag instead of flipping it.
toggle_current_Sets(pkgs, cur, in_buttons) ==
    IF ~in_buttons /\ pkgs # <<>>
    THEN [pkgs EXCEPT ![cur + 1].selected = TRUE]
    ELSE pkgs

\* toggle_current, as the new value of packages.
toggle_current(pkgs, cur, in_buttons) ==
    IF ~in_buttons /\ pkgs # <<>>
    THEN [pkgs EXCEPT ![cur + 1].selected = ~pkgs[cur + 1].selected]
    ELSE pkgs

\* select_all that stops one item short of the end.
select_all_SkipsLast(pkgs) ==
    [i \in 1..Len(pkgs) |->
        IF i < Len(pkgs) THEN [pkgs[i] EXCEPT !.selected = TRUE] ELSE pkgs[i]]

\* select_all, as the new value of packages.
select_all(pkgs) == [i \in 1..Len(pkgs) |-> [pkgs[i] EXCEPT !.selected = TRUE]]

\* deselect_all that drops the selected items instead of clearing their flag.
deselect_all_Drops(pkgs) == SelectSeq(pkgs, LAMBDA p : ~p.selected)

\* deselect_all, as the new value of packages.
deselect_all(pkgs) == [i \in 1..Len(pkgs) |-> [pkgs[i] EXCEPT !.selected = FALSE]]

\* any(p.selected for p in self.packages)
AnySelected(pkgs) == \E i \in 1..Len(pkgs) : pkgs[i].selected

\* The button under button_cursor in the given button set.
ButtonAt(buttons) == buttons[button_cursor + 1]

\* activate_button_returns with Go Back returning "exit" like the other modes'
\* last button.
activate_button_returns_GoBackExits ==
    IF mode = "select"
    THEN IF ButtonAt(SELECT_BUTTONS) = "Exit" THEN "exit" ELSE "none"
    ELSE IF mode = "confirm"
         THEN IF ButtonAt(CONFIRM_BUTTONS) = "Yes, Update" THEN "run_updates"
              ELSE "exit"
         ELSE IF mode = "results" THEN "exit" ELSE "none"

\* What activate_button returns: "exit", "run_updates" or "none" (None).
activate_button_returns ==
    IF mode = "select"
    THEN IF ButtonAt(SELECT_BUTTONS) = "Exit" THEN "exit" ELSE "none"
    ELSE IF mode = "confirm"
         THEN IF ButtonAt(CONFIRM_BUTTONS) = "Yes, Update" THEN "run_updates"
              ELSE "none"
         ELSE IF mode = "results" THEN "exit" ELSE "none"

\* ActivateUpdate without the test that something is selected.
ActivateUpdate_Unguarded ==
    /\ mode' = "confirm"
    /\ in_button_area' = TRUE
    /\ button_cursor' = 0

\* The Update button: Confirming is entered only with something selected.
ActivateUpdate ==
    IF AnySelected(packages)
    THEN /\ mode' = "confirm"
         /\ in_button_area' = TRUE
         /\ button_cursor' = 0
    ELSE UNCHANGED <<mode, in_button_area, button_cursor>>

\* The Go Back button.
ActivateGoBack ==
    /\ mode' = "select"
    /\ in_button_area' = FALSE
    /\ UNCHANGED button_cursor

\* What activate_button changes when it returns None: packages, mode,
\* in_button_area and button_cursor.
activate_button ==
    IF mode = "select"
    THEN CASE ButtonAt(SELECT_BUTTONS) = "Select All" ->
                /\ packages' = select_all(packages)
                /\ move_to_list
                /\ UNCHANGED <<mode, button_cursor>>
           [] ButtonAt(SELECT_BUTTONS) = "Deselect All" ->
                /\ packages' = deselect_all(packages)
                /\ move_to_list
                /\ UNCHANGED <<mode, button_cursor>>
           [] ButtonAt(SELECT_BUTTONS) = "Update" ->
                /\ ActivateUpdate
                /\ UNCHANGED packages
           [] OTHER -> UNCHANGED <<packages, mode, in_button_area, button_cursor>>
    ELSE IF mode = "confirm" /\ ButtonAt(CONFIRM_BUTTONS) = "Go Back"
         THEN /\ ActivateGoBack
              /\ UNCHANGED packages
         ELSE UNCHANGED <<packages, mode, in_button_area, button_cursor>>

\* ----------------------------------------------------- run_updates
\*
\* run_updates is one call made from the key handler; the model cuts it at its
\* external commands, and no key is read before it returns. The update, sync
\* and notify commands are taken to start and to terminate (the helper and
\* flatpak were found by shutil.which during discovery); what varies is their
\* exit status and their standard error.

\* SelectedOf that takes every item of the source, selected or not.
SelectedOf_IgnoresSelection(pkgs, source) ==
    SelectSeq(pkgs, LAMBDA p : p.source = source)

\* [p for p in pkgs if p.selected and p.source == source]
SelectedOf(pkgs, source) ==
    SelectSeq(pkgs, LAMBDA p : p.selected /\ p.source = source)

\* PacmanBatch with the two sources in the other order.
PacmanBatch_AurFirst(pkgs) == SelectedOf(pkgs, AUR) \o SelectedOf(pkgs, OFFICIAL)

\* pacman_pkgs = official + aur
PacmanBatch(pkgs) == SelectedOf(pkgs, OFFICIAL) \o SelectedOf(pkgs, AUR)

\* flatpaks
FlatpakBatch(pkgs) == SelectedOf(pkgs, FLATPAK)

\* The standard error an update command can leave: nothing, blank lines only,
\* or two messages followed by a blank line.
StderrSamples ==
    { <<>>,
      SP \o NL,
      <<"e">> \o NL \o SP \o <<"f">> \o SP \o NL \o SP \o NL }

\* last_error that keeps the first message instead of the last.
last_error_First(stderr) ==
    LET lines == SplitOn(stderr, "\n")
        stripped == [i \in 1..Len(lines) |-> Strip(lines[i])]
        error_lines == SelectSeq(stripped, LAMBDA l : l # <<>>)
    IN IF error_lines # <<>> THEN error_lines[1] ELSE UNKNOWN_ERROR

\* error_lines = [l.strip() for l in stderr.split("\n") if l.strip()]
\* last_error = error_lines[-1] if error_lines else "Unknown error"
last_error(stderr) ==
    LET lines == SplitOn(stderr, "\n")
        stripped == [i \in 1..Len(lines) |-> Strip(lines[i])]
        error_lines == SelectSeq(stripped, LAMBDA l : l # <<>>)
    IN IF error_lines # <<>> THEN error_lines[Len(error_lines)] ELSE UNKNOWN_ERROR

\* ItemResult that does not look at the exit status.
ItemResult_IgnoresStatus(pkg, rc, stderr) ==
    UpdateResult(pkg.name, pkg.source, TRUE, <<>>)

\* The result appended for one item: failure with the last error line when the
\* exit status is not 0, success otherwise.
ItemResult(pkg, rc, stderr) ==
    IF rc # 0
    THEN UpdateResult(pkg.name, pkg.source, FALSE, last_error(stderr))
    ELSE UpdateResult(pkg.name, pkg.source, TRUE, <<>>)

\* Where run_updates goes once the pacman batch is over or skipped.
AfterPacman(flats) == IF flats # <<>> THEN "flatpaks" ELSE "signal"

\* RunsPacman without the test of the helper.
RunsPacman_NoHelperTest(batch, helper) == batch # <<>>

\* Whether the pacman batch runs: if pacman_pkgs and self.aur_helper
RunsPacman(batch, helper) == batch # <<>> /\ helper # "none"

\* run_updates up to its first external command: the mode, the batches, the
\* empty result list and the leave of the alternate screen.
run_updates ==
    /\ mode' = "updating"
    /\ pacman_pkgs' = PacmanBatch(packages)
    /\ flatpaks' = FlatpakBatch(packages)
    /\ results' = <<>>
    /\ fullscreen' = FALSE
    /\ idx' = 1
    /\ pc' = IF RunsPacman(pacman_pkgs', aur_helper) THEN "sync"
             ELSE AfterPacman(flatpaks')
    /\ UNCHANGED <<env, packages, cursor, scroll_offset, in_button_area,
                   button_cursor, broke_at, cmds>>

ExitCodes == {0, 1}

\* SyncDatabase that gives up the pacman batch when the sync fails.
SyncDatabase_AbortsOnFailure ==
    /\ pc = "sync"
    /\ \E rc \in ExitCodes :
           /\ cmds' = Append(cmds, [cmd |-> "sync", name |-> <<>>, rc |-> rc])
           /\ pc' = IF rc = 0 THEN "pacman" ELSE AfterPacman(flatpaks)
    /\ idx' = 1
    /\ UNCHANGED <<env, tui, fullscreen, broke_at, pacman_pkgs, flatpaks>>
    /\ UNCHANGED applet

\* subprocess.run([helper, "-Sy"]): the exit status is not looked at.
SyncDatabase ==
    /\ pc = "sync"
    /\ \E rc \in ExitCodes :
           cmds' = Append(cmds, [cmd |-> "sync", name |-> <<>>, rc |-> rc])
    /\ idx' = 1
    /\ pc' = "pacman"
    /\ UNCHANGED <<env, tui, fullscreen, broke_at, pacman_pkgs, flatpaks>>
    /\ UNCHANGED applet

\* One iteration of the loop over pacman_pkgs.
UpdatePacmanPkg ==
    /\ pc = "pacman"
    /\ \E rc \in ExitCodes, stderr \in StderrSamples :
         /\ rc = 0 => stderr = <<>>
         /\ results' = Append(results, ItemResult(pacman_pkgs[idx], rc, stderr))
         /\ cmds' = Append(cmds, [cmd |-> "update", name |-> pacman_pkgs[idx].name,
                                  rc |-> rc])
    /\ IF idx < Len(pacman_pkgs)
       THEN idx' = idx + 1 /\ pc' = "pacman"
       ELSE idx' = 1 /\ pc' = AfterPacman(flatpaks)
    /\ UNCHANGED <<env, packages, cursor, scroll_offset, mode, in_button_area,
                   button_cursor, fullscreen, broke_at, pacman_pkgs, flatpaks>>
    /\ UNCHANGED applet

\* One iteration of the loop over flatpaks.
UpdateFlatpak ==
    /\ pc = "flatpaks"
    /\ \E rc \in ExitCodes, stderr \in StderrSamples :
         /\ rc = 0 => stderr = <<>>
         /\ results' = Append(results, ItemResult(flatpaks[idx], rc, stderr))
         /\ cmds' = Append(cmds, [cmd |-> "flatpak", name |-> flatpaks[idx].name,
                                  rc |-> rc])
    /\ IF idx < Len(flatpaks)
       THEN idx' = idx + 1 /\ pc' = "flatpaks"
       ELSE idx' = 1 /\ pc' = "signal"
    /\ UNCHANGED <<env, packages, cursor, scroll_offset, mode, in_button_area,
                   button_cursor, fullscreen, broke_at, pacman_pkgs, flatpaks>>
    /\ UNCHANGED applet

\* pkill -RTMIN+1 waybar (its exit status is read by nothing, and the log keeps
\* none for it), the pause, and the return to the loop in results mode.
SignalWaybar ==
    /\ pc = "signal"
    /\ cmds' = Append(cmds, [cmd |-> "notify", name |-> <<>>, rc |-> 0])
    /\ mode' = "results"
    /\ in_button_area' = TRUE
    /\ button_cursor' = 0
    /\ pc' = "inkey"
    /\ UNCHANGED <<env, packages, cursor, scroll_offset, results, fullscreen, broke_at,
                   pacman_pkgs, flatpaks, idx>>
    /\ UNCHANGED applet

\* ------------------------------------------------- UpdaterTUI.run

\* The loop is blocked in term.inkey and the key is one the handler looks at.
AtInkey == pc = "inkey" /\ mode \in {"select", "confirm", "results"}

\* action = self.activate_button(), then break, run_updates() or neither.
Activate ==
    IF activate_button_returns = "exit"
    THEN /\ pc' = "exit"
         /\ fullscreen' = FALSE
         /\ broke_at' = "button"
         /\ UNCHANGED <<env, tui, exec>>
    ELSE IF activate_button_returns = "run_updates"
         THEN run_updates
         ELSE /\ activate_button
              /\ UNCHANGED <<pc, env, cursor, scroll_offset, results, fullscreen, broke_at, exec>>

\* KeyUp that leaves the buttons in every mode.
KeyUp_AnyMode ==
    /\ AtInkey
    /\ IF in_button_area
       THEN /\ move_to_list
            /\ cursor' = Len(packages) - 1
            /\ scroll_offset' = Max(0, Len(packages) - visible_height)
            /\ UNCHANGED button_cursor
       ELSE /\ move_cursor(-1)
            /\ UNCHANGED in_button_area
    /\ UNCHANGED <<pc, env, packages, mode, results, fullscreen, broke_at, exec>>
    /\ UNCHANGED applet

\* KEY_UP, w or k
KeyUp ==
    /\ AtInkey
    /\ IF in_button_area /\ mode = "select"
       THEN /\ move_to_list
            /\ cursor' = Len(packages) - 1
            /\ scroll_offset' = Max(0, Len(packages) - visible_height)
            /\ UNCHANGED button_cursor
       ELSE /\ move_cursor(-1)
            /\ UNCHANGED in_button_area
    /\ UNCHANGED <<pc, env, packages, mode, results, fullscreen, broke_at, exec>>
    /\ UNCHANGED applet

\* KEY_DOWN, s or j
KeyDown ==
    /\ AtInkey
    /\ IF ~in_button_area /\ mode = "select"
       THEN IF cursor >= Len(packages) - 1
            THEN /\ move_to_buttons
                 /\ UNCHANGED <<cursor, scroll_offset>>
            ELSE /\ move_cursor(1)
                 /\ UNCHANGED in_button_area
       ELSE UNCHANGED <<cursor, scroll_offset, in_button_area, button_cursor>>
    /\ UNCHANGED <<pc, env, packages, mode, results, fullscreen, broke_at, exec>>
    /\ UNCHANGED applet

\* A key that calls move_cursor(delta) under the given focus and does nothing
\* under the other.
MoveKey(needs_buttons, delta) ==
    /\ AtInkey
    /\ IF in_button_area = needs_buttons
       THEN move_cursor(delta)
       ELSE UNCHANGED <<cursor, scroll_offset, button_cursor>>
    /\ UNCHANGED <<pc, env, packages, mode, in_button_area, results, fullscreen, broke_at, exec>>
    /\ UNCHANGED applet

KeyLeft == MoveKey(TRUE, -1)
KeyRight == MoveKey(TRUE, 1)
KeyPgUp == MoveKey(FALSE, -visible_height)

\* KeyPgDown that always scrolls the window to the new cursor.
KeyPgDown_ScrollsToCursor ==
    /\ AtInkey
    /\ IF ~in_button_area
       THEN /\ cursor' = ClampCursor(cursor, visible_height, Len(packages))
            /\ scroll_offset' = cursor'
            /\ UNCHANGED button_cursor
       ELSE UNCHANGED <<cursor, scroll_offset, button_cursor>>
    /\ UNCHANGED <<pc, env, packages, mode, in_button_area, results, fullscreen, broke_at, exec>>
    /\ UNCHANGED applet

KeyPgDown == MoveKey(FALSE, visible_height)

\* KeyHome that moves the cursor under either focus.
KeyHome_AnyFocus ==
    /\ AtInkey
    /\ cursor' = 0 /\ scroll_offset' = 0
    /\ UNCHANGED <<pc, env, packages, mode, in_button_area, button_cursor, results,
                   fullscreen, broke_at, exec>>
    /\ UNCHANGED applet

\* KEY_HOME
KeyHome ==
    /\ AtInkey
    /\ IF ~in_button_area
       THEN cursor' = 0 /\ scroll_offset' = 0
       ELSE UNCHANGED <<cursor, scroll_offset>>
    /\ UNCHANGED <<pc, env, packages, mode, in_button_area, button_cursor, results,
                   fullscreen, broke_at, exec>>
    /\ UNCHANGED applet

\* KeyEnd that moves the cursor and leaves the scroll offset alone.
KeyEnd_KeepsScroll ==
    /\ AtInkey
    /\ IF ~in_button_area
       THEN /\ cursor' = Len(packages) - 1
            /\ UNCHANGED scroll_offset
       ELSE UNCHANGED <<cursor, scroll_offset>>
    /\ UNCHANGED <<pc, env, packages, mode, in_button_area, button_cursor, results,
                   fullscreen, broke_at, exec>>
    /\ UNCHANGED applet

\* KEY_END
KeyEnd ==
    /\ AtInkey
    /\ IF ~in_button_area
       THEN /\ cursor' = Len(packages) - 1
            /\ scroll_offset' = Max(0, Len(packages) - visible_height)
       ELSE UNCHANGED <<cursor, scroll_offset>>
    /\ UNCHANGED <<pc, env, packages, mode, in_button_area, button_cursor, results,
                   fullscreen, broke_at, exec>>
    /\ UNCHANGED applet

\* The space bar: looked at in select mode only.
KeySpace ==
    /\ AtInkey
    /\ IF mode = "select"
       THEN IF in_button_area
            THEN Activate
            ELSE /\ packages' = toggle_current(packages, cursor, in_button_area)
                 /\ UNCHANGED <<pc, env, cursor, scroll_offset, mode, in_button_area,
                                button_cursor, results, fullscreen, broke_at, exec>>
       ELSE UNCHANGED vars
    /\ UNCHANGED applet

\* KEY_ENTER
KeyEnter ==
    /\ AtInkey
    /\ IF in_button_area
       THEN Activate
       ELSE IF mode = "select"
            THEN /\ packages' = toggle_current(packages, cursor, in_button_area)
                 /\ UNCHANGED <<pc, env, cursor, scroll_offset, mode, in_button_area,
                                button_cursor, results, fullscreen, broke_at, exec>>
            ELSE UNCHANGED vars
    /\ UNCHANGED applet

\* KeyQuit that is also handled while run_updates is at work.
KeyQuit_DuringUpdates ==
    /\ AtInkey \/ mode = "updating"
    /\ pc' = "exit"
    /\ fullscreen' = FALSE
    /\ broke_at' = "quit"
    /\ UNCHANGED <<env, tui, exec>>
    /\ UNCHANGED applet

\* q or Q: break out of the loop; leaving run() leaves the alternate screen.
KeyQuit ==
    /\ AtInkey
    /\ pc' = "exit"
    /\ fullscreen' = FALSE
    /\ broke_at' = "quit"
    /\ UNCHANGED <<env, tui, exec>>
    /\ UNCHANGED applet

\* Any other key: no branch of the handler matches.
KeyOther ==
    /\ AtInkey
    /\ UNCHANGED vars

Next ==
    \/ DetectAurHelper
    \/ FetchOfficial
    \/ FetchAur
    \/ FetchFlatpak
    \/ NoUpdates
    \/ Acknowledge
    \/ StartTUI
    \/ KeyUp
    \/ KeyDown
    \/ KeyLeft
    \/ KeyRight
    \/ KeyPgUp
    \/ KeyPgDown
    \/ KeyHome
    \/ KeyEnd
    \/ KeySpace
    \/ KeyEnter
    \/ KeyQuit
    \/ KeyOther
    \/ SyncDatabase
    \/ UpdatePacmanPkg
    \/ UpdateFlatpak
    \/ SignalWaybar

Spec == Init /\ [][Next]_vars

\* ------------------------------------------------------------ claims

\* The mode changes the interaction state machine allows.
ModeChanges ==
    { <<"select", "confirm">>, <<"confirm", "select">>,
      <<"confirm", "updating">>, <<"updating", "results">> }

\* C1: the session starts in Browsing (select); the only mode changes are
\* Browsing->Confirming by the Update button, Confirming->Browsing by Go Back,
\* Confirming->Executing by Yes, Update and Executing->Reporting; the loop
\* ends only at a key read, by the Exit button in Browsing or Reporting or by
\* the quit key in Browsing, Confirming or Reporting; and Reporting is never
\* left for another mode.
C1_ModeMachine ==
    [][ /\ (mode = "none" /\ mode' # "none") => mode' = "select"
        /\ (mode # "none" /\ mode' # mode) => <<mode, mode'>> \in ModeChanges
        /\ (mode = "select" /\ mode' = "confirm") =>
               pc = "inkey" /\ in_button_area /\ ButtonAt(SELECT_BUTTONS) = "Update"
        /\ (mode = "confirm" /\ mode' = "select") =>
               pc = "inkey" /\ in_button_area /\ ButtonAt(CONFIRM_BUTTONS) = "Go Back"
        /\ (mode = "confirm" /\ mode' = "updating") =>
               pc = "inkey" /\ in_button_area
                 /\ ButtonAt(CONFIRM_BUTTONS) = "Yes, Update"
        /\ (mode = "updating" /\ mode' = "results") => pc = "signal"
        /\ (mode # "none" /\ pc # "exit" /\ pc' = "exit") =>
               /\ pc = "inkey"
               /\ mode' = mode
               /\ \/ broke_at' = "quit" /\ mode \in {"select", "confirm", "results"}
                  \/ /\ broke_at' = "button"
                     /\ in_button_area
                     /\ \/ mode = "select" /\ ButtonAt(SELECT_BUTTONS) = "Exit"
                        \/ mode = "results" /\ ButtonAt(RESULTS_BUTTONS) = "Exit"
        /\ (mode # "none" /\ pc' = "crashed") => FALSE
        /\ mode = "results" => mode' = "results"
      ]_vars

\* A session that went through all four modes and was ended by the Exit button
\* of Reporting.
C1_Witness ==
    pc = "exit" /\ mode = "results" /\ broke_at = "button" /\ results # <<>>

\* The visible window holds the cursor.
CursorInWindow ==
    scroll_offset <= cursor /\ cursor < scroll_offset + visible_height

C3_CursorInRange ==
    (pc = "inkey" /\ ~in_button_area /\ packages # <<>>) =>
        (0 <= cursor /\ cursor <= Len(packages) - 1)

\* List focus regained in Browsing with some item deselected and the cursor on
\* the last of at least three items.
C3_Witness ==
    /\ pc = "inkey" /\ mode = "select" /\ ~in_button_area
    /\ Len(packages) >= 3 /\ cursor = Len(packages) - 1
    /\ button_cursor = 1
    /\ \E i \in 1..Len(packages) : ~packages[i].selected

SelectedCount(pkgs) == Cardinality({i \in 1..Len(pkgs) : pkgs[i].selected})

\* C4: Confirming is never entered or held with nothing selected: a step from
\* Browsing with nothing selected stays in Browsing, every state in Confirming
\* has a selected item, and no step taken in Confirming lowers the selected
\* count.
C4_ConfirmNeedsSelection ==
    [][ /\ mode' = "confirm" => SelectedCount(packages') >= 1
        /\ (mode = "select" /\ SelectedCount(packages) = 0) => mode' = "select"
        /\ mode = "confirm" => SelectedCount(packages') >= SelectedCount(packages)
      ]_vars

\* Browsing with the Update button focused and nothing selected: the state in
\* which activating Update must be a no-op.
C4_Witness ==
    /\ pc = "inkey" /\ mode = "select" /\ in_button_area
    /\ ButtonAt(SELECT_BUTTONS) = "Update"
    /\ SelectedCount(packages) = 0

\* The catalog with the flag of the item at index i (from 0) flipped.
Flipped(pkgs, i) ==
    [k \in 1..Len(pkgs) |->
        IF k = i + 1
        THEN [name |-> pkgs[k].name, current_version |-> pkgs[k].current_version,
              new_version |-> pkgs[k].new_version, source |-> pkgs[k].source,
              selected |-> ~pkgs[k].selected]
        ELSE pkgs[k]]

\* C5: space or enter with list focus in Browsing flips the selected flag of
\* the item under the cursor and changes nothing else (no other flag, not the
\* cursor, the scroll offset, the focus or the mode); toggling twice restores
\* the catalog; with button focus toggle_current changes nothing.
C5_Toggle ==
    [][ /\ (pc = "inkey" /\ mode = "select" /\ ~in_button_area
              /\ (KeySpace \/ KeyEnter)) =>
               /\ packages' = Flipped(packages, cursor)
               /\ UNCHANGED <<pc, env, cursor, scroll_offset, mode, in_button_area,
                              button_cursor, results, fullscreen, broke_at, exec>>
        /\ (pc = "inkey" /\ mode = "select" /\ ~in_button_area) =>
               toggle_current(toggle_current(packages, cursor, in_button_area),
                              cursor, in_button_area) = packages
        /\ (pc = "inkey" /\ in_button_area) =>
               toggle_current(packages, cursor, in_button_area) = packages
      ]_vars

\* Browsing with list focus on an item that has been deselected while another
\* item is still selected.
C5_Witness ==
    /\ pc = "inkey" /\ mode = "select" /\ ~in_button_area
    /\ Len(packages) >= 2
    /\ ~packages[cursor + 1].selected
    /\ SelectedCount(packages) >= 1
    /\ button_cursor = 0

AllSelected(pkgs) == \A i \in 1..Len(pkgs) : pkgs[i].selected
NoneSelected(pkgs) == \A i \in 1..Len(pkgs) : ~pkgs[i].selected

\* C6: whatever the selection, select_all leaves every item selected,
\* select_all followed by deselect_all leaves none selected, and each of the
\* two applied twice gives what it gives applied once.
C6_SelectAllDeselectAll ==
    mode # "none" =>
        /\ AllSelected(select_all(packages))
        /\ NoneSelected(deselect_all(select_all(packages)))
        /\ select_all(select_all(packages)) = select_all(packages)
        /\ deselect_all(deselect_all(packages)) = deselect_all(packages)

\* Browsing after Deselect All was activated on a catalog of two or more
\* items: nothing is selected and focus is back on the list.
C6_Witness ==
    /\ pc = "inkey" /\ mode = "select" /\ ~in_button_area /\ button_cursor = 1
    /\ Len(packages) >= 2
    /\ NoneSelected(packages)

\* The fields of an item that are fixed at aggregation.
Identity(p) == <<p.name, p.source, p.current_version, p.new_version>>

\* C7: once the catalog is handed to the interaction loop, no step changes its
\* length or the (name, source, current_version, new_version) of any position.
C7_CatalogFixed ==
    [][ mode # "none" =>
            /\ Len(packages') = Len(packages)
            /\ \A i \in 1..Len(packages) :
                   Identity(packages'[i]) = Identity(packages[i])
      ]_vars

\* Reporting after an execution in which some item was left out and some item
\* was updated.
C7_Witness ==
    /\ pc = "inkey" /\ mode = "results"
    /\ results # <<>>
    /\ \E i \in 1..Len(packages) : ~packages[i].selected

\* C8: when aggregation is complete the catalog is the repo adapter's items,
\* then the AUR adapter's, then the flatpak adapter's, each in the adapter's
\* order and tagged with its source, and every item is selected; the
\* interaction loop starts with exactly that catalog.
C8_Aggregate ==
    [][ pc = "check" =>
            /\ packages = fetched.official \o fetched.aur \o fetched.flatpak
            /\ \A i \in 1..Len(fetched.official) : fetched.official[i].source = OFFICIAL
            /\ \A i \in 1..Len(fetched.aur) : fetched.aur[i].source = AUR
            /\ \A i \in 1..Len(fetched.flatpak) : fetched.flatpak[i].source = FLATPAK
            /\ AllSelected(packages)
            /\ pc' = "inkey" => packages' = packages
      ]_vars

\* The interaction loop starting on a catalog with items of all three sources.
C8_Witness ==
    /\ pc = "inkey" /\ mode = "select" /\ broke_at = "none"
    /\ fetched.official # <<>> /\ fetched.aur # <<>> /\ fetched.flatpak # <<>>
    /\ AllSelected(packages) /\ cursor = 0 /\ ~in_button_area

\* The item commands issued so far, in the order they were issued.
ItemCmds == SelectSeq(cmds, LAMBDA c : c.cmd \in {"update", "flatpak"})

\* The batches run_updates processes, one after the other: the pacman batch
\* when it runs, then the flatpak batch.
Processed ==
    (IF pacman_pkgs # <<>> /\ aur_helper # "none" THEN pacman_pkgs ELSE <<>>)
        \o flatpaks

\* C9: during and after an execution the Result Set holds one entry per item
\* command issued, in batch order, each naming its item and with success =
\* false exactly when that command's exit status was not 0; and in Reporting
\* every item of every processed batch has its entry, however many failed.
C9_PerItemIsolation ==
    mode \in {"updating", "results"} =>
        /\ Len(results) = Len(ItemCmds)
        /\ Len(results) <= Len(Processed)
        /\ \A i \in 1..Len(results) :
               /\ results[i].name = Processed[i].name
               /\ results[i].source = Processed[i].source
               /\ ItemCmds[i].name = Processed[i].name
               /\ results[i].success = (ItemCmds[i].rc = 0)
        /\ mode = "results" => Len(results) = Len(Processed)

\* Reporting after the first item of a pacman batch of two failed, the second
\* succeeded and a flatpak item of the following batch succeeded.
C9_Witness ==
    /\ pc = "inkey" /\ mode = "results"
    /\ Len(pacman_pkgs) >= 2 /\ flatpaks # <<>>
    /\ Len(results) = Len(pacman_pkgs) + Len(flatpaks)
    /\ ~results[1].success
    /\ results[2].success
    /\ results[Len(results)].success

\* C10: with no AUR helper detected, an execution issues no sync command and
\* no helper update command and records no result for a repo or AUR item,
\* while in Reporting the results are exactly one per selected flatpak item, in
\* catalog order.
C10_NoHelper ==
    (aur_helper = "none" /\ mode \in {"updating", "results"}) =>
        /\ \A i \in 1..Len(cmds) : cmds[i].cmd \notin {"sync", "update"}
        /\ \A i \in 1..Len(results) : results[i].source = FLATPAK
        /\ mode = "results" =>
               LET chosen == SelectSeq(packages,
                                       LAMBDA p : p.selected /\ p.source = FLATPAK)
               IN /\ Len(results) = Len(chosen)
                  /\ \A i \in 1..Len(chosen) : results[i].name = chosen[i].name

\* Reporting with no helper after an execution whose selection held a repo
\* item and two flatpak items.
C10_Witness ==
    /\ pc = "inkey" /\ mode = "results" /\ aur_helper = "none"
    /\ \E i \in 1..Len(packages) : packages[i].selected /\ packages[i].source = OFFICIAL
    /\ Len(results) = 2

\* The place of a source in the order of the Result Set.
SourceRank(source) ==
    IF source = OFFICIAL THEN 1 ELSE IF source = AUR THEN 2 ELSE 3

\* The names of a list of items or results, in order.
Names(s) == [i \in 1..Len(s) |-> s[i].name]

\* The entries of a list of items or results that have the given source.
OfSource(s, source) == SelectSeq(s, LAMBDA x : x.source = source)

\* The selected items of the catalog, in catalog order.
SelectedItems == SelectSeq(packages, LAMBDA p : p.selected)

\* C11: in the Result Set of one execution repo results come before AUR
\* results and both before flatpak results; the results of each source that
\* was processed name the selected items of that source in catalog order; and
\* with a helper detected the result names are the names of the selected items
\* in catalog order.
C11_ResultOrder ==
    mode = "results" =>
        /\ \A i \in 1..Len(results) : \A j \in i..Len(results) :
               SourceRank(results[i].source) <= SourceRank(results[j].source)
        /\ Names(OfSource(results, FLATPAK)) = Names(OfSource(SelectedItems, FLATPAK))
        /\ aur_helper # "none" =>
               /\ Names(OfSource(results, OFFICIAL))
                      = Names(OfSource(SelectedItems, OFFICIAL))
               /\ Names(OfSource(results, AUR)) = Names(OfSource(SelectedItems, AUR))
               /\ Names(results) = Names(SelectedItems)

\* Reporting after an execution with a helper that updated a repo item, an AUR
\* item and a flatpak item while one item was left out.
C11_Witness ==
    /\ pc = "inkey" /\ mode = "results" /\ aur_helper # "none"
    /\ OfSource(results, OFFICIAL) # <<>>
    /\ OfSource(results, AUR) # <<>>
    /\ OfSource(results, FLATPAK) # <<>>
    /\ Len(results) < Len(packages)

\* ------------------------------------------------- one update command

\* The most lines of standard error one update command leaves.
MaxStderrLines == 3

\* The lines a command can write to standard error, each with the message that
\* is left of it once the white space around it is removed: an empty line, a
\* blank line, a message, a message inside blanks, a message of two words
\* behind a tab.
StderrLineKinds ==
    { [raw |-> <<>>, core |-> <<>>],
      [raw |-> SP, core |-> <<>>],
      [raw |-> <<"e">>, core |-> <<"e">>],
      [raw |-> SP \o <<"f">> \o SP, core |-> <<"f">>],
      [raw |-> TAB \o <<"g">> \o SP \o <<"h">>, core |-> <<"g">> \o SP \o <<"h">>] }

\* The sequences of at most n lines.
StderrLineSeqs(n) == UNION { [1..k -> StderrLineKinds] : k \in 0..n }

\* result.stderr for the given lines: each line ends with a line feed, the last
\* one only when the command wrote it.
StderrText(lines, terminated) ==
    LET text == JoinLines([i \in 1..Len(lines) |-> lines[i].raw])
    IN IF terminated \/ text = <<>> THEN text ELSE SubSeq(text, 1, Len(text) - 1)

\* The item the command updates.
SampleItem == Package(NameOf(1), VerOld, VerNew, OFFICIAL)

\* One finished update command whose outcome was not looked at yet: the exit
\* status and the lines of standard error are kept in the command log.
ItemInit ==
    /\ AppletIdle
    /\ pc = "item"
    /\ term_height = ChromeLines + 1
    /\ aur_helper = "paru"
    /\ packages = <<SampleItem>>
    /\ fetched = [official |-> <<SampleItem>>, aur |-> <<>>, flatpak |-> <<>>]
    /\ cursor = 0
    /\ scroll_offset = 0
    /\ mode = "updating"
    /\ in_button_area = TRUE
    /\ button_cursor = 0
    /\ results = <<>>
    /\ fullscreen = FALSE
    /\ broke_at = "none"
    /\ pacman_pkgs = <<SampleItem>>
    /\ flatpaks = <<>>
    /\ idx = 1
    /\ \E rc \in ExitCodes, lines \in StderrLineSeqs(MaxStderrLines),
          terminated \in BOOLEAN :
           cmds = << [cmd |-> "update", name |-> SampleItem.name, rc |-> rc,
                      lines |-> lines, terminated |-> terminated] >>

\* if result.returncode != 0: ... else: ... for the finished command.
RecordItemResult ==
    /\ pc = "item"
    /\ results' = Append(results,
                         ItemResult(pacman_pkgs[idx], cmds[1].rc,
                                    StderrText(cmds[1].lines, cmds[1].terminated)))
    /\ pc' = "recorded"
    /\ UNCHANGED <<env, packages, cursor, scroll_offset, mode, in_button_area,
                   button_cursor, fullscreen, broke_at, exec>>
    /\ UNCHANGED applet

ItemNext == RecordItemResult

ItemSpec == ItemInit /\ [][ItemNext]_vars

\* The places of the lines that hold a message.
MessageLines(lines) == { i \in 1..Len(lines) : lines[i].core # <<>> }

\* The last of a non-empty set of places.
LastOf(at) == CHOOSE i \in at : \A j \in at : j <= i

\* C12: for each update command, a non-zero exit status gives a Result Item
\* with success false whose error is the last line of standard error that is
\* not blank, without the white space around it, or "Unknown error" when there
\* is no such line; exit status 0 gives success true and an empty error.
C12_ItemOutcome ==
    pc = "recorded" =>
        LET c == cmds[1]
            r == results[1]
            at == MessageLines(c.lines)
        IN /\ Len(results) = 1
           /\ r.name = c.name
           /\ c.rc # 0 =>
                  /\ r.success = FALSE
                  /\ at # {} => r.error = c.lines[LastOf(at)].core
                  /\ at = {} => r.error = UNKNOWN_ERROR
           /\ c.rc = 0 => r.success = TRUE /\ r.error = <<>>

\* A failed command whose standard error holds two messages and ends with a
\* blank line, after its result was recorded.
C12_Witness ==
    /\ pc = "recorded"
    /\ cmds[1].rc # 0
    /\ Len(cmds[1].lines) = 3
    /\ MessageLines(cmds[1].lines) = {1, 2}
    /\ cmds[1].lines[1].core # cmds[1].lines[2].core
    /\ results[1].error = cmds[1].lines[2].core

\* What a step does to the focus around Confirming and Reporting: the state it
\* leads to has the focus on the buttons when its mode is confirm or results,
\* and a step taken in confirm, updating or results mode that puts the focus
\* on the list is the activation of Go Back in confirm mode and leads to
\* select mode.
FocusForced ==
    /\ mode' \in {"confirm", "results"} => in_button_area'
    /\ (mode \in {"confirm", "updating", "results"} /\ ~in_button_area') =>
           /\ mode = "confirm"
           /\ in_button_area
           /\ ButtonAt(CONFIRM_BUTTONS) = "Go Back"
           /\ mode' = "select"

\* C13: whenever the mode is Confirming or Reporting the focus is on the
\* buttons; no key handled in those modes moves the focus to the list except
\* Go Back, which also leaves Confirming.
C13_FocusOnButtons == [][FocusForced]_vars

\* Confirming with the button cursor moved onto Go Back by a key handled there.
C13_Witness ==
    /\ pc = "inkey" /\ mode = "confirm" /\ in_button_area
    /\ ButtonAt(CONFIRM_BUTTONS) = "Go Back"

\* C14: no source adapter raises past its own boundary: whatever the outcome
\* of the discovery command (tool missing, any other failure to start it,
\* timeout, non-zero exit status, output that cannot be parsed), the adapter
\* returns a list and main goes on to the remaining adapters, so main never
\* ends in an exception raised by an adapter.
C14_AdaptersNeverRaise == pc # "crashed"

\* run_updates is one call made from the key loop (line 521): the loop reads
\* no key before it returns, and each subprocess.run returns once its command
\* has ended. With commands that end, the next step of run_updates (there is
\* at most one, given by pc) is taken.
ExecutorStep == SyncDatabase \/ UpdatePacmanPkg \/ UpdateFlatpak \/ SignalWaybar

FairSpec == Spec /\ WF_vars(ExecutorStep)

\* The positions of main inside run_updates.
ExecutorPcs == {"sync", "pacman", "flatpaks", "signal"}

\* A step taken while the mode is updating: the program is inside run_updates
\* and not at the key read, the step changes no item, cursor, scroll offset or
\* focus, and it leads either to a further position of run_updates or to
\* results mode with a result for every item of the processed batches.
Uninterrupted ==
    mode = "updating" =>
        /\ pc \in ExecutorPcs
        /\ ~AtInkey
        /\ UNCHANGED <<packages, cursor, scroll_offset, in_button_area, button_cursor>>
        /\ \/ mode' = "updating" /\ pc' \in ExecutorPcs
           \/ /\ mode' = "results" /\ pc' = "inkey"
              /\ Len(results') = Len(Processed)

\* C15: once "Yes, Update" is activated no key is handled and no selection,
\* cursor or focus changes until every item command of both batches has
\* completed; and, the commands terminating, the session then always reaches
\* Reporting.
C15_RunsToCompletion ==
    /\ [][Uninterrupted]_vars
    /\ (mode = "updating") ~> (mode = "results")

\* The end of an execution of at least two item commands, all completed, before
\* the status bar is signalled.
C15_Witness ==
    /\ mode = "updating" /\ pc = "signal"
    /\ Len(results) >= 2
    /\ Len(results) = Len(Processed)

\* What a step does to the selection once Confirming was entered: a step
\* taken in confirm, updating or results mode changes no item, and the step
\* that accepts "Yes, Update" hands the executor exactly the items selected at
\* that moment, in its two batches.
SelectionFrozen ==
    /\ mode \in {"confirm", "updating", "results"} => packages' = packages
    /\ (mode = "confirm" /\ mode' = "updating") =>
           pacman_pkgs' \o flatpaks' = SelectedItems
    /\ mode \in {"updating", "results"} =>
           /\ UNCHANGED <<pacman_pkgs, flatpaks>>
           /\ pacman_pkgs \o flatpaks = SelectedItems

\* C16: from the entry into Confirming until the session ends or Go Back
\* returns to Browsing no item's selected flag changes, so the items handed to
\* the executor are exactly the items that were selected when the Update
\* button was accepted.
C16_SelectionFrozen == [][SelectionFrozen]_vars

\* An execution whose batches hold two items while a third item of the catalog
\* was left unselected when Update was accepted.
C16_Witness ==
    /\ mode = "updating"
    /\ Len(pacman_pkgs) + Len(flatpaks) = 2
    /\ Len(packages) >= 3
    /\ \E i \in 1..Len(packages) : ~packages[i].selected

\* Discovery is over and every adapter that ran returned an empty list.
NothingFound(at, pkgs) == at \notin {"detect", "official", "aur", "flatpak", "crashed"}
                              /\ pkgs = <<>>

\* The one command of a session that found nothing.
NotifyOnce == << [cmd |-> "notify", name |-> <<>>, rc |-> 0] >>

\* A step of a session that found nothing: from the test of the catalog it
\* goes to the prompt and nowhere else; it leads to a state in which no mode
\* was ever set and the alternate screen was not entered; the session ends
\* from the prompt only; and the command log is empty up to the end of the
\* prompt and holds the one notify command after it.
EmptySession ==
    /\ (pc = "check" /\ packages = <<>>) => pc' = "prompt"
    /\ NothingFound(pc', packages') =>
           /\ pc' \in {"check", "prompt", "exit"}
           /\ mode' = "none" /\ ~fullscreen'
           /\ pc' = "exit" => pc \in {"prompt", "exit"}
           /\ cmds' = IF pc' = "exit" THEN NotifyOnce ELSE <<>>

\* C17: when every source adapter returns an empty sequence the session ends
\* without ever entering Browsing, and the notify signal is sent exactly once,
\* after the operator acknowledges the prompt.
C17_NothingToUpdate == [][EmptySession]_vars

\* The end of a session that found nothing, after the prompt was acknowledged.
C17_Witness ==
    /\ pc = "exit" /\ packages = <<>> /\ mode = "none"
    /\ cmds = NotifyOnce

\* A command without its exit status.
Shape(cmd, name) == [cmd |-> cmd, name |-> name]

\* The command log without the exit statuses.
Shapes(log) == [i \in 1..Len(log) |-> Shape(log[i].cmd, log[i].name)]

\* One command of the given kind per selected item of the source, in catalog
\* order.
PerSelected(cmd, source) ==
    LET items == OfSource(SelectedItems, source)
    IN [i \in 1..Len(items) |-> Shape(cmd, items[i].name)]

\* The commands of one execution with a helper and a non-empty pacman batch.
ExpectedCommands ==
    << Shape("sync", <<>>) >>
        \o PerSelected("update", OFFICIAL)
        \o PerSelected("update", AUR)
        \o PerSelected("flatpak", FLATPAK)
        \o << Shape("notify", <<>>) >>

\* s is the beginning of t.
IsPrefix(s, t) == Len(s) <= Len(t) /\ s = SubSeq(t, 1, Len(s))

\* C18: in one execution with an AUR helper detected and a repo or AUR item
\* selected, the commands are issued one after the other in this order: the
\* sync once, one update command per selected repo item in catalog order, one
\* per selected AUR item, one per selected flatpak item, the notify signal
\* once; whatever the exit status of the sync, it records no Result Item and
\* the item commands run.
C18_CommandOrder ==
    ( /\ mode \in {"updating", "results"}
      /\ aur_helper # "none"
      /\ \E i \in 1..Len(packages) :
             packages[i].selected /\ packages[i].source \in {OFFICIAL, AUR} ) =>
        /\ IsPrefix(Shapes(cmds), ExpectedCommands)
        /\ mode = "results" <=> Shapes(cmds) = ExpectedCommands
        /\ Len(results) = Len(ItemCmds)
        /\ pc = "pacman" => Len(cmds) = idx /\ Len(results) = idx - 1

\* Reporting after an execution whose sync failed and that went on to update a
\* repo item, an AUR item and a flatpak item.
C18_Witness ==
    /\ mode = "results" /\ aur_helper # "none"
    /\ cmds[1].cmd = "sync" /\ cmds[1].rc # 0
    /\ Len(cmds) = 5
    /\ results[1].source = OFFICIAL
    /\ results[2].source = AUR
    /\ results[3].source = FLATPAK

\* The cursor is inside the scroll window in the state a step leads to.
CursorInWindowAfter ==
    scroll_offset' <= cursor' /\ cursor' < scroll_offset' + visible_height

\* A down move in Browsing with the list focus and the cursor on the last item
\* puts the focus on the first button and leaves the cursor where it is.
DownPastLast ==
    (KeyDown /\ mode = "select" /\ ~in_button_area /\ cursor = Len(packages) - 1) =>
        /\ in_button_area' /\ button_cursor' = 0
        /\ cursor' = cursor
        /\ mode' = "select"

\* An up move in Browsing with the button focus puts the focus on the list and
\* the cursor on the last item.
UpFromButtons ==
    (KeyUp /\ mode = "select" /\ in_button_area) =>
        /\ ~in_button_area'
        /\ cursor' = Len(packages) - 1
        /\ mode' = "select"

MaxNavCatalog == 12
MaxNavPage == 5

\* Terminal heights from one row short of the fixed lines of the screen (page
\* size -1) to the largest page.
NavHeights == (ChromeLines - 1)..(ChromeLines + MaxNavPage)

\* A catalog of n repo items with names of different lengths.
NavCatalog(n) ==
    [i \in 1..n |-> Package([j \in 1..i |-> "p"], VerOld, VerNew, OFFICIAL)]

\* The state in which the loop waits for its first key (UpdaterTUI.__init__
\* and the entry of run) on a catalog of 1 to MaxNavCatalog items.
NavInit ==
    /\ AppletIdle
    /\ pc = "inkey"
    /\ term_height \in NavHeights
    /\ aur_helper = "paru"
    /\ \E n \in 1..MaxNavCatalog : packages = NavCatalog(n)
    /\ fetched = [official |-> packages, aur |-> <<>>, flatpak |-> <<>>]
    /\ cursor = 0
    /\ scroll_offset = 0
    /\ mode = "select"
    /\ in_button_area = FALSE
    /\ button_cursor = 0
    /\ results = <<>>
    /\ fullscreen = TRUE
    /\ broke_at = "none"
    /\ pacman_pkgs = <<>>
    /\ flatpaks = <<>>
    /\ idx = 0
    /\ cmds = <<>>

\* The keys that move the cursor or the focus.
NavNext ==
    \/ KeyUp
    \/ KeyDown
    \/ KeyLeft
    \/ KeyRight
    \/ KeyPgUp
    \/ KeyPgDown
    \/ KeyHome
    \/ KeyEnd

NavSpec == NavInit /\ [][NavNext]_vars

\* Home and End with the list focus: the first item with offset 0; the last
\* item with offset max(0, len - page_size), which is 7 for 12 items and a
\* page of 5.
HomeEnd ==
    /\ (KeyHome /\ ~in_button_area) => cursor' = 0 /\ scroll_offset' = 0
    /\ (KeyEnd /\ ~in_button_area) =>
           /\ cursor' = Len(packages) - 1
           /\ scroll_offset' = Max(0, Len(packages) - visible_height)
           /\ (visible_height = 5 /\ Len(packages) = 12) => scroll_offset' = 7

\* C20 as stated: with the list focus, for any terminal, page-down sets the
\* cursor to min(len - 1, cursor + page_size) and page-up to
\* max(0, cursor - page_size); Home and End as in HomeEnd.
C20_Original ==
    [][ /\ (KeyPgDown /\ ~in_button_area) =>
               cursor' = Min(Len(packages) - 1, cursor + visible_height)
        /\ (KeyPgUp /\ ~in_button_area) =>
               cursor' = Max(0, cursor - visible_height)
        /\ HomeEnd ]_vars

\* C20 as amended: page-down sets the cursor to
\* max(0, min(len - 1, cursor + page_size)) and page-up to
\* max(0, min(len - 1, cursor - page_size)), which are the stated values
\* whenever page_size >= 0; Home and End as in HomeEnd.
C20_PageHomeEnd ==
    [][ /\ (KeyPgDown /\ ~in_button_area) =>
               /\ cursor' = Max(0, Min(Len(packages) - 1, cursor + visible_height))
               /\ visible_height >= 0 =>
                      cursor' = Min(Len(packages) - 1, cursor + visible_height)
        /\ (KeyPgUp /\ ~in_button_area) =>
               /\ cursor' = Max(0, Min(Len(packages) - 1, cursor - visible_height))
               /\ visible_height >= 0 => cursor' = Max(0, cursor - visible_height)
        /\ HomeEnd ]_vars

\* The scenario: 12 items, a page of 5, the list focus, the cursor on the last
\* item and the list scrolled to offset 7.
C20_Witness ==
    /\ pc = "inkey" /\ mode = "select" /\ ~in_button_area
    /\ Len(packages) = 12 /\ visible_height = 5
    /\ cursor = 11 /\ scroll_offset = 7

\* C21: the alternate screen is left when an execution starts and entered
\* again afterwards: in every state of the key loop with mode = Reporting the
\* terminal is in the alternate screen.
C21_FullscreenRestored == (pc = "inkey" /\ mode = "results") => fullscreen

\* ------------------------------------------------- one discovery output

\* The most lines of one discovery output.
MaxParseLines == 3

\* The i-th line of a tool's output, of the given kind.
LineOf(tool, kind, i) == IF kind = "full" THEN GoodLine(tool, i) ELSE OddLine(kind, i)

\* The tool behind each source and the kinds of line it is given.
ToolOf(source) ==
    IF source = OFFICIAL THEN "checkupdates"
    ELSE IF source = AUR THEN "helper" ELSE "flatpak"
KindsOf(source) == IF source = FLATPAK THEN TabKinds ELSE WhitespaceKinds

\* The standard output made of lines of the given kinds.
OutputOf(source, kinds) ==
    JoinLines([i \in 1..Len(kinds) |-> LineOf(ToolOf(source), kinds[i], i)])

\* The adapter of a source applied to a command that exited with status 0.
Adapter(source, stdout) ==
    LET out == [status |-> "ok", stdout |-> stdout]
    IN CASE source = OFFICIAL -> get_official_updates(out)
         [] source = AUR -> get_aur_updates(out)
         [] source = FLATPAK -> get_flatpak_updates(TRUE, out)

\* A discovery command of one source has ended with status 0; the kinds of its
\* output lines are kept in the command log.
ParseInit ==
    /\ AppletIdle
    /\ pc = "parse"
    /\ term_height = ChromeLines + 1
    /\ aur_helper = "paru"
    /\ packages = <<>>
    /\ fetched = [official |-> <<>>, aur |-> <<>>, flatpak |-> <<>>]
    /\ cursor = 0
    /\ scroll_offset = 0
    /\ mode = "none"
    /\ in_button_area = FALSE
    /\ button_cursor = 0
    /\ results = <<>>
    /\ fullscreen = FALSE
    /\ broke_at = "none"
    /\ pacman_pkgs = <<>>
    /\ flatpaks = <<>>
    /\ idx = 0
    /\ \E source \in {OFFICIAL, AUR, FLATPAK} :
         \E kinds \in UNION { [1..n -> KindsOf(source)] : n \in 0..MaxParseLines } :
           cmds = << [cmd |-> "discover", source |-> source, kinds |-> kinds] >>

\* packages.extend(adapter()) for that output.
ParseDiscovery ==
    /\ pc = "parse"
    /\ LET r == Adapter(cmds[1].source, OutputOf(cmds[1].source, cmds[1].kinds))
       IN /\ ~r.raised
          /\ packages' = Extend(packages, r.pkgs)
    /\ pc' = "parsed"
    /\ UNCHANGED <<env, cursor, scroll_offset, mode, in_button_area, button_cursor,
                   results, fullscreen, broke_at, exec>>
    /\ UNCHANGED applet

ParseNext == ParseDiscovery

ParseSpec == ParseInit /\ [][ParseNext]_vars

\* The places of the lines of the given kinds that hold a name.
Named(kinds) == { i \in 1..Len(kinds) : kinds[i] \notin {"blank", "noname"} }

\* The places of the lines that hold all four fields, in order.
Complete(kinds) ==
    SelectSeq([i \in 1..Len(kinds) |-> i], LAMBDA i : kinds[i] = "full")

\* C22: for the AUR and flatpak adapters every output line with at least a
\* name contributes an Update Item, with "?" in place of the version fields
\* the line does not have; for the repo adapter a line contributes an item
\* only if it has all four fields and is dropped otherwise.
C22_PartialLines ==
    pc = "parsed" =>
        LET source == cmds[1].source
            kinds == cmds[1].kinds
        IN /\ source \in {AUR, FLATPAK} =>
                  \A i \in Named(kinds) :
                      \E k \in 1..Len(packages) :
                          /\ packages[k].name = NameOf(i)
                          /\ packages[k].source = source
                          /\ kinds[i] \in {"one", "two", "three", "notab"} =>
                                 packages[k].new_version = QUESTION
                          /\ kinds[i] = "one" => packages[k].current_version = QUESTION
           /\ source = OFFICIAL =>
                  /\ Len(packages) = Len(Complete(kinds))
                  /\ \A k \in 1..Len(packages) :
                         /\ packages[k].name = NameOf(Complete(kinds)[k])
                         /\ packages[k].source = OFFICIAL

\* ------------------------------------------------- the brightness applet

\* The slider inputs of one run.
MaxSliderInputs == 4

\* set_brightness: value = int(percent * max_val / 100), sent with ddcutil.
set_brightness(percent, max_val) == (percent * max_val) \div 100

\* The dict d without key k.
Without(d, k) == [x \in DOMAIN d \ {k} |-> d[x]]

\* The dict d with key k set to v.
With(d, k, v) == [x \in DOMAIN d \cup {k} |-> IF x = k THEN v ELSE d[x]]

\* The sources left by debounce_apply that removes nothing.
Cancelled_KeepsOld(key) == timeout_sources

\* The sources left once debounce_apply has removed the pending timeout of
\* the key, if there is one.
Cancelled(key) ==
    IF key \in DOMAIN pending_timeouts
    THEN { t \in timeout_sources : t.id # pending_timeouts[key] }
    ELSE timeout_sources

\* debounce_apply(key, callback): remove the pending timeout of the key, add a
\* new one and remember its id.
debounce_apply(key, callback) ==
    /\ timeout_sources' =
           Cancelled(key) \cup {[id |-> next_source_id, key |-> key, callback |-> callback]}
    /\ pending_timeouts' = With(pending_timeouts, key, next_source_id)
    /\ next_source_id' = next_source_id + 1

\* The All slider is moved to a new value: on_all_changed. The set_value of
\* each display's slider calls on_slider_changed, which returns at once
\* because updating is True, so no timeout of a bus is touched; updating is
\* False again when the handler ends.
on_all_changed ==
    /\ pc = "applet"
    /\ inputs < MaxSliderInputs
    /\ ~updating
    /\ \E value \in Percents \ {all_scale} :
         /\ all_scale' = value
         /\ sliders' = [b \in Buses |-> value]
         /\ pending_values' = [b \in Buses |-> <<value, MaxValOf(b)>>]
         /\ last_input' = [last_input EXCEPT
                              !["all"] = [value |-> value, id |-> next_source_id]]
    /\ debounce_apply("all", [kind |-> "apply_all", bus |-> "all", value |-> 0,
                              max_val |-> 0])
    /\ inputs' = inputs + 1
    /\ UNCHANGED <<updating, ddc>>
    /\ UNCHANGED <<pc, env, tui, fullscreen, broke_at, exec>>

\* The slider of one display is moved to a new value: on_slider_changed.
on_slider_changed ==
    /\ pc = "applet"
    /\ inputs < MaxSliderInputs
    /\ ~updating
    /\ \E bus \in Buses :
         \E value \in Percents \ {sliders[bus]} :
           /\ sliders' = [sliders EXCEPT ![bus] = value]
           /\ last_input' = [last_input EXCEPT
                                ![bus] = [value |-> value, id |-> next_source_id]]
           /\ debounce_apply(bus, [kind |-> "apply_single", bus |-> bus,
                                   value |-> value, max_val |-> MaxValOf(bus)])
    /\ inputs' = inputs + 1
    /\ UNCHANGED <<updating, pending_values, all_scale, ddc>>
    /\ UNCHANGED <<pc, env, tui, fullscreen, broke_at, exec>>

\* The timeout t expires and GLib calls its callback, apply_single or
\* apply_all; the callback returns False, which removes the source.
Expire(t) ==
    /\ pc = "applet"
    /\ t \in timeout_sources
    /\ IF t.callback.kind = "apply_single"
       THEN /\ ddc' = [ddc EXCEPT ![t.callback.bus] =
                          set_brightness(t.callback.value, t.callback.max_val)]
            /\ pending_timeouts' = Without(pending_timeouts, t.callback.bus)
            /\ UNCHANGED pending_values
       ELSE /\ ddc' = [b \in Buses |->
                          IF b \in DOMAIN pending_values
                          THEN set_brightness(pending_values[b][1], pending_values[b][2])
                          ELSE ddc[b]]
            /\ pending_values' = EmptyDict
            /\ pending_timeouts' = Without(pending_timeouts, "all")
    /\ timeout_sources' = timeout_sources \ {t}
    /\ UNCHANGED <<updating, all_scale, sliders, next_source_id, last_input, inputs>>
    /\ UNCHANGED <<pc, env, tui, fullscreen, broke_at, exec>>

\* Any pending timeout may be the next to expire.
TimeoutExpires == \E t \in timeout_sources : Expire(t)

\* The window with its sliders built, before any input.
BrightnessInit ==
    /\ pc = "applet"
    /\ term_height = ChromeLines + 1
    /\ aur_helper = "none"
    /\ packages = <<>>
    /\ fetched = [official |-> <<>>, aur |-> <<>>, flatpak |-> <<>>]
    /\ cursor = 0
    /\ scroll_offset = 0
    /\ mode = "none"
    /\ in_button_area = FALSE
    /\ button_cursor = 0
    /\ results = <<>>
    /\ fullscreen = FALSE
    /\ broke_at = "none"
    /\ pacman_pkgs = <<>>
    /\ flatpaks = <<>>
    /\ idx = 0
    /\ cmds = <<>>
    /\ AppletInit

BrightnessNext ==
    \/ on_all_changed
    \/ on_slider_changed
    \/ TimeoutExpires

BrightnessSpec == BrightnessInit /\ [][BrightnessNext]_vars

\* The pending timeouts of a key among the given sources.
PendingFor(sources, key) == { t \in sources : t.key = key }

\* What a step of the applet leaves and does: at most one pending timeout per
\* key, each the one armed by the latest input for its key; and a timeout that
\* expires sends the value of that latest input, for its bus or, for 'all',
\* for every bus.
Debounced ==
    /\ \A key \in DebounceKeys :
           /\ Cardinality(PendingFor(timeout_sources', key)) <= 1
           /\ \A t \in PendingFor(timeout_sources', key) :
                  /\ t.id = last_input'[key].id
                  /\ key \in DOMAIN pending_timeouts'
                  /\ pending_timeouts'[key] = t.id
    /\ \A t \in timeout_sources :
           Expire(t) =>
               /\ t.id = last_input[t.key].id
               /\ \A b \in Buses :
                      ddc'[b] = IF t.key \in {b, "all"}
                                THEN (last_input[t.key].value * MaxValOf(b)) \div 100
                                ELSE ddc[b]

\* C23: under any interleaving of slider inputs and timer expiries each
\* debounce key has at most one pending apply timer, which is the one armed by
\* the most recent input for that key, so that the value applied when it
\* fires is that input's value.
C23_LastInputWins == [][Debounced]_vars

\* Bus 5 was given two inputs within the window and only the second one was
\* applied: its value is the last one sent, and nothing is pending for the bus.
C23_Witness ==
    /\ pc = "applet"
    /\ last_input["5"].id >= 2
    /\ \E p \in Percents : last_input["5"].value = p /\ p # 0
                           /\ ddc["5"] = (p * MaxValOf("5")) \div 100
    /\ PendingFor(timeout_sources, "5") = {}
    /\ last_input["all"] = NoInput
    /\ next_source_id = 3

\* The number of buttons of each mode in which a button can be activated.
ButtonCount ==
    IF mode = "select" THEN 4 ELSE IF mode = "confirm" THEN 2 ELSE 1

\* C24: in every state of Browsing, Confirming or Reporting button_cursor is
\* a valid index into the buttons of the mode: 0 <= button_cursor < 4 in
\* Browsing, < 2 in Confirming, < 1 in Reporting.
C24_ButtonCursorValid ==
    mode \in {"select", "confirm", "results"} =>
        /\ 0 <= button_cursor
        /\ button_cursor < ButtonCount
        /\ ButtonCount = Len(current_buttons)

\* Browsing with the focus on the last of the four buttons.
C24_Witness ==
    /\ pc = "inkey" /\ mode = "select" /\ in_button_area
    /\ button_cursor = 3

\* Browsing with the focus on the buttons has the cursor on the last item.
ButtonRowBelowLast ==
    (mode' = "select" /\ in_button_area') => cursor' = Len(packages') - 1

\* The button row of Browsing is entered by a down move from the last item
\* only, and left only towards the list or towards Confirming.
ButtonRowEntries ==
    /\ (mode' = "select" /\ in_button_area' /\ ~(mode = "select" /\ in_button_area)) =>
           /\ KeyDown
           /\ mode = "select" /\ cursor = Len(packages) - 1
    /\ (mode = "select" /\ in_button_area /\ pc' = "inkey"
          /\ ~(mode' = "select" /\ in_button_area')) =>
           \/ mode' = "select" /\ ~in_button_area'
           \/ mode' = "confirm"

ScrollBounded ==
    visible_height >= 1 =>
        /\ 0 <= scroll_offset'
        /\ scroll_offset' <= Max(0, Len(packages') - visible_height)
        /\ scroll_offset' # scroll_offset =>
               ~(scroll_offset <= cursor' /\ cursor' < scroll_offset + visible_height)

\* C26: for a fixed page_size >= 1 every reachable state has
\* 0 <= scroll_offset <= max(0, len(catalog) - page_size), and a cursor move
\* changes scroll_offset only when the new cursor would otherwise fall outside
\* the current window.
C26_ScrollBounded == [][ScrollBounded]_vars

\* A list of 12 items with a page of 5 scrolled to its end, offset 7, and the
\* cursor moved back up inside the window.
C26_Witness ==
    /\ pc = "inkey" /\ mode = "select" /\ ~in_button_area
    /\ Len(packages) = 12 /\ visible_height = 5
    /\ scroll_offset = 7 /\ cursor = 9

====
